---- MODULE Spec2Model ----
(***************************************************************************)
(* Model of the blog-emailing newsletter dispatcher (src/main.go).         *)
(*                                                                         *)
(* The three tables of the SQLite store are sequences of rows in insertion *)
(* order; AUTOINCREMENT ids are row positions because nothing is deleted.  *)
(* Every db.Exec / db.Query of the source is one atomic step that takes an *)
(* error input (the driver can fail any statement: busy database, I/O).    *)
(* Each "go sendNewsletterForArticle" is a task whose statements interleave*)
(* with the request handlers and with the other tasks.                     *)
(***************************************************************************)
EXTENDS Integers, Sequences, FiniteSets

VARIABLES
    subscribers,   \* table subscribers: Seq of [id, email, name]
    articles,      \* table articles: Seq of [id, title, content]
    sent_emails,   \* table sent_emails: Seq of [id, subscriber_id, article_id]
    tasks,         \* the goroutines started by "go sendNewsletterForArticle"
    lastStatus,    \* status code of the response the last step wrote, 0 if it wrote none
    faults         \* failures the environment has injected: store errors, mail failures

vars == <<subscribers, articles, sent_emails, tasks, lastStatus, faults>>

-----------------------------------------------------------------------------
(* Bounds of the model. *)

MaxSubscribers == 2
MaxArticles == 1
MaxTasks == 2
MaxFaults == 1

(* Inputs of the requests. *)
Methods == {"POST", "GET"}
Emails == {"a@x.com", "b@x.com"}
Names == {"Ann"}
Titles == {"Hi"}
Contents == {"Body"}
InvalidJSON == [invalid |-> "JSON"]
ArticleIDs == 0..MaxArticles

(* Outcomes of one sendEmail call: the template file is missing or does    *)
(* not parse or render, the relay refuses, or the message is delivered.    *)
MailOutcomes == {"delivered", "template_error", "dial_error"}

StatusOK == 200
StatusBadRequest == 400
StatusMethodNotAllowed == 405
StatusInternalServerError == 500

-----------------------------------------------------------------------------
(* The store. *)

RECURSIVE CountRows(_, _, _)
CountRows(rows, subscriberID, articleID) ==
    IF rows = <<>> THEN 0
    ELSE (IF Head(rows).subscriber_id = subscriberID /\ Head(rows).article_id = articleID
          THEN 1 ELSE 0) + CountRows(Tail(rows), subscriberID, articleID)

EmailsOf(rows) == {rows[k].email : k \in 1..Len(rows)}

(* INSERT INTO subscribers without the UNIQUE constraint on email. *)
InsertSubscriberNoUnique(rows, email, name, err) ==
    IF err
    THEN [ok |-> FALSE, rows |-> rows]
    ELSE [ok |-> TRUE,
          rows |-> Append(rows, [id |-> Len(rows) + 1, email |-> email, name |-> name])]

(* INSERT INTO subscribers (email, name): email is NOT NULL UNIQUE. *)
InsertSubscriber(rows, email, name, err) ==
    IF err \/ email \in EmailsOf(rows)
    THEN [ok |-> FALSE, rows |-> rows]
    ELSE [ok |-> TRUE,
          rows |-> Append(rows, [id |-> Len(rows) + 1, email |-> email, name |-> name])]

(* INSERT INTO articles (title, content) and result.LastInsertId(). *)
InsertArticle(rows, title, content, err) ==
    IF err
    THEN [ok |-> FALSE, rows |-> rows, id |-> 0]
    ELSE [ok |-> TRUE,
          rows |-> Append(rows, [id |-> Len(rows) + 1, title |-> title, content |-> content]),
          id |-> Len(rows) + 1]

(* getArticle that reports every id as found (Scan's sql.ErrNoRows lost). *)
getArticleAlwaysFound(rows, id, err) == ~err

(* getArticle: SELECT ... WHERE id = ?; no row or a failed query is an error. *)
getArticle(rows, id, err) ==
    ~err /\ \E k \in 1..Len(rows) : rows[k].id = id

(* getSubscribers: SELECT id, email, name FROM subscribers, in store order.  *)
(* The task keeps the ids; email and name of a row never change.            *)
getSubscribers(rows, err) ==
    IF err THEN <<>> ELSE [k \in 1..Len(rows) |-> rows[k].id]

(* hasReceivedArticle that never finds a record. *)
hasReceivedArticleNever(rows, subscriberID, articleID, err) == FALSE

(* hasReceivedArticle: the COUNT query gives more than 0; false when it fails. *)
hasReceivedArticle(rows, subscriberID, articleID, err) ==
    IF err THEN FALSE ELSE CountRows(rows, subscriberID, articleID) > 0

(* markEmailSent as INSERT OR IGNORE under a unique (subscriber, article). *)
markEmailSentIfAbsent(rows, subscriberID, articleID, err) ==
    IF err \/ CountRows(rows, subscriberID, articleID) > 0 THEN rows
    ELSE Append(rows, [id |-> Len(rows) + 1, subscriber_id |-> subscriberID,
                       article_id |-> articleID])

(* markEmailSent with its two arguments swapped. *)
markEmailSentSwapped(rows, subscriberID, articleID, err) ==
    IF err THEN rows
    ELSE Append(rows, [id |-> Len(rows) + 1, subscriber_id |-> articleID,
                       article_id |-> subscriberID])

(* markEmailSent: INSERT INTO sent_emails; an error is logged only. *)
markEmailSent(rows, subscriberID, articleID, err) ==
    IF err THEN rows
    ELSE Append(rows, [id |-> Len(rows) + 1, subscriber_id |-> subscriberID,
                       article_id |-> articleID])

(* sendEmail that ignores the error of DialAndSend. *)
sendEmailIgnoresDialError(outcome) == outcome # "template_error"

(* sendEmail: true only when the template rendered and the relay accepted. *)
sendEmail(outcome) == outcome = "delivered"

-----------------------------------------------------------------------------
(* Events and tasks. *)

(* A step that writes no response: a dispatch step (it only logs), and the  *)
(* part of a handler that runs up to its go statement.                     *)
NoResponse == 0

(* A task as "go sendNewsletterForArticle(db, articleID)" creates it.  The   *)
(* fields after pc record what the run did, for the properties.             *)
NewTask(articleID, origin) ==
    [articleID |-> articleID,
     origin |-> origin,                 \* the handler that launched it
     pc |-> "launched",
     subs |-> <<>>,                     \* the slice getSubscribers returned
     i |-> 0,                           \* position of the range loop
     responded |-> FALSE,               \* the launching request's response is written
     nsubs |-> Len(subscribers),        \* subscribers present at the launch
     prior |-> {},                      \* tasks that had returned when this one began
     aborted |-> "no",                  \* "article" / "subscribers": an early return
     attempts |-> <<>>,                 \* sendEmail calls: [sub, ok]
     skipped |-> {},                    \* subscribers hasReceivedArticle held back
     checkErr |-> {},                   \* subscribers whose COUNT query failed
     marked |-> {}]                     \* subscribers whose sent-record was inserted

TaskIds == 1..Len(tasks)
DoneTasks == {t \in TaskIds : tasks[t].pc = "done"}

(* The range loop moves to the next subscriber, or the function returns. *)
Advance(tsk) ==
    IF tsk.i < Len(tsk.subs)
    THEN [tsk EXCEPT !.i = tsk.i + 1, !.pc = "check"]
    ELSE [tsk EXCEPT !.pc = "done"]

-----------------------------------------------------------------------------
(* The HTTP handlers.  A handler's store statement and the response it      *)
(* writes after it are one step; the publish and send-newsletter handlers   *)
(* start the task first and write their 200 in a later step, WriteResponse. *)

Init ==
    /\ subscribers = <<>>
    /\ articles = <<>>
    /\ sent_emails = <<>>
    /\ tasks = <<>>
    /\ lastStatus = NoResponse
    /\ faults = 0

(* A failing statement or mail call is an input; the model injects at most  *)
(* MaxFaults of them in one behaviour.                                      *)
Inject(failed) ==
    /\ failed => faults < MaxFaults
    /\ faults' = IF failed THEN faults + 1 ELSE faults

SubscribeBodies == {InvalidJSON} \cup [email : Emails, name : Names]
PublishBodies == {InvalidJSON} \cup [title : Titles, content : Contents]
SendNewsletterBodies == {InvalidJSON} \cup [article_id : ArticleIDs]

(* http.Error(w, ..., code) and return: nothing but the response. *)
Reject(code) ==
    /\ lastStatus' = code
    /\ UNCHANGED <<subscribers, articles, sent_emails, tasks>>

HandleSubscribe(method, body, err) ==
    IF method # "POST"
    THEN Reject(StatusMethodNotAllowed) /\ UNCHANGED faults
    ELSE IF body = InvalidJSON
    THEN Reject(StatusBadRequest) /\ UNCHANGED faults
    ELSE LET r == InsertSubscriber(subscribers, body.email, body.name, err) IN
         /\ Inject(err)
         /\ IF ~r.ok
            THEN Reject(StatusInternalServerError)
            ELSE /\ Len(subscribers) < MaxSubscribers
                 /\ subscribers' = r.rows
                 /\ lastStatus' = StatusOK
                 /\ UNCHANGED <<articles, sent_emails, tasks>>

(* handlePublish without the return after the failed insert: the task is    *)
(* started with the id of a result that does not exist.                     *)
HandlePublishNoReturn(method, body, err) ==
    IF method # "POST"
    THEN Reject(StatusMethodNotAllowed) /\ UNCHANGED faults
    ELSE IF body = InvalidJSON
    THEN Reject(StatusBadRequest) /\ UNCHANGED faults
    ELSE LET r == InsertArticle(articles, body.title, body.content, err) IN
         /\ Inject(err)
         /\ r.ok => Len(articles) < MaxArticles
         /\ Len(tasks) < MaxTasks
         /\ articles' = r.rows
         /\ tasks' = Append(tasks, NewTask(r.id, "publish"))
         /\ lastStatus' = IF r.ok THEN 0 ELSE StatusInternalServerError
         /\ UNCHANGED <<subscribers, sent_emails>>

HandlePublish(method, body, err) ==
    IF method # "POST"
    THEN Reject(StatusMethodNotAllowed) /\ UNCHANGED faults
    ELSE IF body = InvalidJSON
    THEN Reject(StatusBadRequest) /\ UNCHANGED faults
    ELSE LET r == InsertArticle(articles, body.title, body.content, err) IN
         /\ Inject(err)
         /\ IF ~r.ok
            THEN Reject(StatusInternalServerError)
            ELSE /\ Len(articles) < MaxArticles
                 /\ Len(tasks) < MaxTasks
                 /\ articles' = r.rows
                 /\ tasks' = Append(tasks, NewTask(r.id, "publish"))
                 /\ lastStatus' = NoResponse
                 /\ UNCHANGED <<subscribers, sent_emails>>

HandleSendNewsletter(method, body) ==
    IF method # "POST"
    THEN Reject(StatusMethodNotAllowed) /\ UNCHANGED faults
    ELSE IF body = InvalidJSON
    THEN Reject(StatusBadRequest) /\ UNCHANGED faults
    ELSE /\ Len(tasks) < MaxTasks
         /\ tasks' = Append(tasks, NewTask(body.article_id, "send-newsletter"))
         /\ lastStatus' = NoResponse
         /\ UNCHANGED <<subscribers, articles, sent_emails, faults>>

(* The handler waits for its task before it writes the response. *)
WriteResponseAfterDispatch(t) ==
    /\ ~tasks[t].responded
    /\ tasks[t].pc = "done"
    /\ tasks' = [tasks EXCEPT ![t].responded = TRUE]
    /\ lastStatus' = StatusOK
    /\ UNCHANGED <<subscribers, articles, sent_emails, faults>>

(* w.WriteHeader(http.StatusOK); w.Write(...) after the go statement. *)
WriteResponse(t) ==
    /\ ~tasks[t].responded
    /\ tasks' = [tasks EXCEPT ![t].responded = TRUE]
    /\ lastStatus' = StatusOK
    /\ UNCHANGED <<subscribers, articles, sent_emails, faults>>

(* GET /api/stats: three SELECTs, any of which can fail; the handler does   *)
(* not look at the method.  The JSON body is not part of the state.         *)
HandleGetAllData(err) ==
    /\ Inject(err)
    /\ lastStatus' = IF err THEN StatusInternalServerError ELSE StatusOK
    /\ UNCHANGED <<subscribers, articles, sent_emails, tasks>>

-----------------------------------------------------------------------------
(* sendNewsletterForArticle, one step per store or mail call. *)

CurrentSub(tsk) == tsk.subs[tsk.i]

GetArticleStep(t, err) ==
    /\ tasks[t].pc = "launched"
    /\ Inject(err)
    /\ LET tsk == [tasks[t] EXCEPT !.prior = DoneTasks] IN
       tasks' = [tasks EXCEPT ![t] =
                    IF getArticle(articles, tsk.articleID, err)
                    THEN [tsk EXCEPT !.pc = "subs"]
                    ELSE [tsk EXCEPT !.pc = "done", !.aborted = "article"]]
    /\ lastStatus' = NoResponse
    /\ UNCHANGED <<subscribers, articles, sent_emails>>

GetSubscribersStep(t, err) ==
    /\ tasks[t].pc = "subs"
    /\ Inject(err)
    /\ tasks' = [tasks EXCEPT ![t] =
                    IF err
                    THEN [@ EXCEPT !.pc = "done", !.aborted = "subscribers"]
                    ELSE Advance([@ EXCEPT !.subs = getSubscribers(subscribers, err)])]
    /\ lastStatus' = NoResponse
    /\ UNCHANGED <<subscribers, articles, sent_emails>>

CheckStep(t, err) ==
    /\ tasks[t].pc = "check"
    /\ Inject(err)
    /\ LET tsk == tasks[t]
           sub == CurrentSub(tsk)
           seen == [tsk EXCEPT !.checkErr = IF err THEN @ \cup {sub} ELSE @]
       IN tasks' = [tasks EXCEPT ![t] =
                    IF hasReceivedArticle(sent_emails, sub, tsk.articleID, err)
                    THEN Advance([seen EXCEPT !.skipped = @ \cup {sub}])
                    ELSE [seen EXCEPT !.pc = "send"]]
    /\ lastStatus' = NoResponse
    /\ UNCHANGED <<subscribers, articles, sent_emails>>

(* The loop returns at the first failed send instead of going on. *)
SendStepStopsOnFailure(t, outcome) ==
    /\ tasks[t].pc = "send"
    /\ Inject(outcome # "delivered")
    /\ LET tsk == tasks[t]
           tried == [tsk EXCEPT !.attempts =
                        Append(@, [sub |-> CurrentSub(tsk), ok |-> outcome = "delivered"])]
       IN tasks' = [tasks EXCEPT ![t] =
                    IF sendEmail(outcome)
                    THEN [tried EXCEPT !.pc = "mark"]
                    ELSE [tried EXCEPT !.pc = "done"]]
    /\ lastStatus' = NoResponse
    /\ UNCHANGED <<subscribers, articles, sent_emails>>

SendStep(t, outcome) ==
    /\ tasks[t].pc = "send"
    /\ Inject(outcome # "delivered")
    /\ LET tsk == tasks[t]
           tried == [tsk EXCEPT !.attempts =
                        Append(@, [sub |-> CurrentSub(tsk), ok |-> outcome = "delivered"])]
       IN tasks' = [tasks EXCEPT ![t] =
                    IF sendEmail(outcome)
                    THEN [tried EXCEPT !.pc = "mark"]
                    ELSE Advance(tried)]
    /\ lastStatus' = NoResponse
    /\ UNCHANGED <<subscribers, articles, sent_emails>>

MarkStep(t, err) ==
    /\ tasks[t].pc = "mark"
    /\ Inject(err)
    /\ LET tsk == tasks[t]
           sub == CurrentSub(tsk)
       IN /\ sent_emails' = markEmailSent(sent_emails, sub, tsk.articleID, err)
          /\ tasks' = [tasks EXCEPT ![t] =
                        Advance([tsk EXCEPT !.marked = IF err THEN @ ELSE @ \cup {sub}])]
    /\ lastStatus' = NoResponse
    /\ UNCHANGED <<subscribers, articles>>

TaskStep(t) ==
    \/ \E err \in BOOLEAN : GetArticleStep(t, err)
    \/ \E err \in BOOLEAN : GetSubscribersStep(t, err)
    \/ \E err \in BOOLEAN : CheckStep(t, err)
    \/ \E outcome \in MailOutcomes : SendStep(t, outcome)
    \/ \E err \in BOOLEAN : MarkStep(t, err)

Next ==
    \/ \E method \in Methods, body \in SubscribeBodies, err \in BOOLEAN :
          HandleSubscribe(method, body, err)
    \/ \E method \in Methods, body \in PublishBodies, err \in BOOLEAN :
          HandlePublish(method, body, err)
    \/ \E method \in Methods, body \in SendNewsletterBodies :
          HandleSendNewsletter(method, body)
    \/ \E err \in BOOLEAN : HandleGetAllData(err)
    \/ \E t \in TaskIds : WriteResponse(t)
    \/ \E t \in TaskIds : TaskStep(t)

Spec == Init /\ [][Next]_vars

(* The Go scheduler runs every goroutine that can run, and each store and   *)
(* mail call of a task returns.                                             *)
FairSpec == Spec /\ \A t \in 1..MaxTasks : WF_vars(t \in TaskIds /\ TaskStep(t))

-----------------------------------------------------------------------------
(* What the properties read off a state. *)

SubscriberIds == 1..MaxSubscribers

Rec(s, a) == CountRows(sent_emails, s, a)

Attempted(tsk, s, ok) ==
    {k \in 1..Len(tsk.attempts) : tsk.attempts[k].sub = s /\ tsk.attempts[k].ok = ok}

RECURSIVE DeliveredUpTo(_, _, _)
DeliveredUpTo(n, s, a) ==
    IF n = 0 THEN 0
    ELSE (IF tasks[n].articleID = a THEN Cardinality(Attempted(tasks[n], s, TRUE)) ELSE 0)
         + DeliveredUpTo(n - 1, s, a)

(* Emails delivered to subscriber s for article a, over all runs. *)
Delivered(s, a) == DeliveredUpTo(Len(tasks), s, a)

(* Two runs of sendNewsletterForArticle overlapped in time. *)
Overlap(t1, t2) ==
    /\ t1 # t2
    /\ tasks[t1].pc # "launched" /\ tasks[t2].pc # "launched"
    /\ t1 \notin tasks[t2].prior /\ t2 \notin tasks[t1].prior

Overlapped == \E t1, t2 \in TaskIds : Overlap(t1, t2)

(* The article of task t was in the store when t was launched: a publish   *)
(* inserts the article and launches its task in one step, in launch order. *)
Existed(t) ==
    \E p \in 1..t : tasks[p].origin = "publish" /\ tasks[p].articleID = tasks[t].articleID
                    /\ (p = t \/ tasks[t].origin = "send-newsletter")

PublishedAfter(t) ==
    \E p \in TaskIds : p > t /\ tasks[p].origin = "publish"
                       /\ tasks[p].articleID = tasks[t].articleID

-----------------------------------------------------------------------------
(* C1: when no two runs of sendNewsletterForArticle overlap, each          *)
(* (subscriber, article) pair has at most one sent_emails record.          *)
C1_AtMostOncePerPair ==
    ~Overlapped => \A s \in SubscriberIds, a \in ArticleIDs : Rec(s, a) <= 1

(* C2: two tasks of one article that both passed the existence check for   *)
(* the same subscriber and both inserted leave two records for the pair,   *)
(* after two delivered emails.                                             *)
C2_ConcurrentDuplicate ==
    \A t1, t2 \in TaskIds :
        (t1 # t2 /\ tasks[t1].articleID = tasks[t2].articleID) =>
            \A s \in tasks[t1].marked \cap tasks[t2].marked :
                /\ Rec(s, tasks[t1].articleID) >= 2
                /\ Delivered(s, tasks[t1].articleID) >= 2

(* A publish and a send-newsletter for its article ran concurrently, no    *)
(* statement failed, both checks passed and both inserted.                 *)
C2_Witness ==
    \E t1, t2 \in TaskIds, s \in SubscriberIds :
        /\ tasks[t1].origin = "publish" /\ tasks[t2].origin = "send-newsletter"
        /\ tasks[t1].articleID = tasks[t2].articleID
        /\ Overlap(t1, t2)
        /\ s \in tasks[t1].marked \cap tasks[t2].marked
        /\ faults = 0
        /\ Rec(s, tasks[t1].articleID) = 2
        /\ Delivered(s, tasks[t1].articleID) = 2

-----------------------------------------------------------------------------
(* Two calls of dispatch, one after the other, for one existing article    *)
(* and a single subscriber; no other run for the article has begun.        *)
TwoSequentialRuns(t1, t2) ==
    /\ t1 # t2
    /\ tasks[t1].pc = "done" /\ tasks[t2].pc = "done"
    /\ tasks[t1].articleID = tasks[t2].articleID
    /\ t1 \in tasks[t2].prior
    /\ Existed(t1) /\ Existed(t2)
    /\ tasks[t1].nsubs = 1 /\ tasks[t2].nsubs = 1 /\ Len(subscribers) = 1
    /\ \A t3 \in TaskIds \ {t1, t2} :
          tasks[t3].articleID # tasks[t1].articleID \/ tasks[t3].pc = "launched"

-----------------------------------------------------------------------------
(* C4: a pair never has more sent-records than delivered emails; a run     *)
(* records a subscriber only after its own sendEmail for it returned true, *)
(* and a failed send adds no record.                                       *)
C4_RecordOnlyAfterDelivery ==
    /\ \A s \in SubscriberIds, a \in ArticleIDs : Rec(s, a) <= Delivered(s, a)
    /\ \A t \in TaskIds : \A s \in tasks[t].marked : Attempted(tasks[t], s, TRUE) # {}
    /\ \A t \in TaskIds : \A s \in SubscriberIds :
          (tasks[t].pc = "mark" /\ CurrentSub(tasks[t]) = s) =>
              Attempted(tasks[t], s, TRUE) # {}

(* A run whose send to subscriber 1 failed went on and recorded subscriber 2. *)
C4_Witness ==
    \E t \in TaskIds :
        /\ tasks[t].pc = "done"
        /\ Attempted(tasks[t], 1, FALSE) # {}
        /\ Rec(1, tasks[t].articleID) = 0
        /\ 2 \in tasks[t].marked
        /\ Rec(2, tasks[t].articleID) = 1

-----------------------------------------------------------------------------
(* C5 as stated: a task that send-newsletter launched for an id that named *)
(* no article at the request never sends and never records.                *)
C5_MissingArticleNeverSends ==
    \A t \in TaskIds :
        (tasks[t].origin = "send-newsletter" /\ ~Existed(t)) =>
            (tasks[t].attempts = <<>> /\ tasks[t].marked = {})

MissingAtLookup ==
    \A t \in TaskIds :
        (tasks[t].origin = "send-newsletter" /\ ~Existed(t)) =>
            /\ tasks[t].aborted = "article" =>
                  (tasks[t].subs = <<>> /\ tasks[t].attempts = <<>> /\ tasks[t].marked = {})
            /\ (tasks[t].pc \notin {"launched", "done"} \/ tasks[t].aborted # "article") =>
                  (tasks[t].pc = "launched" \/ PublishedAfter(t))
            /\ \A k \in 1..Len(sent_emails) :
                  sent_emails[k].article_id = tasks[t].articleID => PublishedAfter(t)

(* C5 amended: the request is answered 200, and its task sends and records *)
(* nothing unless the article was published after the request and before   *)
(* the task looked it up; when the lookup finds nothing the task returns   *)
(* without reading the subscribers.                                        *)
C5_MissingAtLookupNeverSends ==
    /\ []MissingAtLookup
    /\ [][\A t \in TaskIds :
            (~tasks[t].responded /\ tasks'[t].responded) => lastStatus' = StatusOK]_vars

(* The request was answered, the task found no article and returned, with  *)
(* a subscriber in the store and nothing sent.                             *)
C5_Witness ==
    \E t \in TaskIds :
        /\ tasks[t].origin = "send-newsletter" /\ ~Existed(t) /\ ~PublishedAfter(t)
        /\ tasks[t].responded
        /\ tasks[t].pc = "done" /\ tasks[t].aborted = "article"
        /\ subscribers # <<>>
        /\ faults = 0
        /\ sent_emails = <<>>

-----------------------------------------------------------------------------
Settled(t, s) ==
    \/ Rec(s, tasks[t].articleID) >= 1
    \/ Attempted(tasks[t], s, FALSE) # {}

C6_RunInvariant ==
    \A t \in TaskIds :
        /\ (tasks[t].origin = "publish" /\ tasks[t].pc = "done" /\ tasks[t].aborted = "no") =>
              \A s \in 1..tasks[t].nsubs :
                  \/ Settled(t, s)
                  \/ (Attempted(tasks[t], s, TRUE) # {} /\ s \notin tasks[t].marked)
        /\ (tasks[t].pc = "done" /\ tasks[t].aborted = "no") =>
              \A k \in 1..Len(tasks[t].subs) :
                  LET s == tasks[t].subs[k] IN
                  s \in tasks[t].skipped \/ Attempted(tasks[t], s, TRUE) # {}
                                         \/ Attempted(tasks[t], s, FALSE) # {}
        /\ \A s \in SubscriberIds :
              Cardinality(Attempted(tasks[t], s, TRUE) \cup Attempted(tasks[t], s, FALSE)) <= 1

-----------------------------------------------------------------------------
NoDuplicateEmail ==
    \A j, k \in 1..Len(subscribers) : subscribers[j].email = subscribers[k].email => j = k

(* C7: no two subscribers share an email, and a subscribe request whose    *)
(* email is already in the table is answered 500 and leaves it unchanged.  *)
C7_UniqueEmail ==
    /\ []NoDuplicateEmail
    /\ [][\A body \in SubscribeBodies \ {InvalidJSON}, err \in BOOLEAN :
            (body.email \in EmailsOf(subscribers) /\ HandleSubscribe("POST", body, err)) =>
                (lastStatus' = StatusInternalServerError /\ subscribers' = subscribers)]_vars

(* A subscribe was refused although the store did not fail: its email was  *)
(* taken.                                                                  *)
C7_Witness ==
    /\ lastStatus = StatusInternalServerError
    /\ faults = 0
    /\ Len(subscribers) >= 1

-----------------------------------------------------------------------------
Rejections == {StatusBadRequest, StatusMethodNotAllowed, StatusInternalServerError}

LaunchedBy(tsk) ==
    /\ tsk.pc = "launched"
    /\ lastStatus' = NoResponse
    /\ \/ /\ tsk.origin = "publish"
          /\ \E body \in PublishBodies \ {InvalidJSON} : HandlePublish("POST", body, FALSE)
          /\ Len(articles') = Len(articles) + 1
          /\ tsk.articleID = articles'[Len(articles')].id
       \/ /\ tsk.origin = "send-newsletter"
          /\ \E body \in SendNewsletterBodies \ {InvalidJSON} :
                HandleSendNewsletter("POST", body) /\ tsk.articleID = body.article_id
          /\ articles' = articles

(* C8: a step that answers 400, 405 or 500 changes no table and launches   *)
(* no task; a task appears only in the step of a publish whose insert      *)
(* succeeded or of a send-newsletter whose body decoded.                   *)
C8_RejectedChangesNothing ==
    [][/\ lastStatus' \in Rejections =>
             UNCHANGED <<subscribers, articles, sent_emails, tasks>>
       /\ tasks' # tasks /\ Len(tasks') # Len(tasks) =>
             (Len(tasks') = Len(tasks) + 1 /\ LaunchedBy(tasks'[Len(tasks')]))]_vars

(* A request was rejected while the tables held rows and a task existed.   *)
C8_Witness ==
    /\ lastStatus \in Rejections
    /\ subscribers # <<>> /\ articles # <<>> /\ sent_emails # <<>>
    /\ tasks # <<>>

-----------------------------------------------------------------------------
(* C9 as stated: a task does nothing before its request is answered.       *)
C9_ResponseBeforeDispatch ==
    \A t \in TaskIds : tasks[t].pc # "launched" => tasks[t].responded

(* C9 amended: the handler answers without waiting for its task: while the *)
(* response is not written, writing it is possible whatever the task has   *)
(* done, and the task may run, and return, before it is written.           *)
C9_ResponseNeverWaits ==
    \A t \in TaskIds : ~tasks[t].responded => ENABLED WriteResponse(t)

(* A task emailed and recorded a subscriber and returned before the        *)
(* response of its request was written.                                    *)
C9_Witness ==
    \E t \in TaskIds :
        /\ ~tasks[t].responded
        /\ tasks[t].pc = "done"
        /\ tasks[t].marked # {}

-----------------------------------------------------------------------------
(* C10: every sent_emails record references a subscriber id of subscribers *)
(* and an article id of articles.                                          *)
C10_ReferentialIntegrity ==
    \A k \in 1..Len(sent_emails) :
        /\ \E j \in 1..Len(subscribers) : subscribers[j].id = sent_emails[k].subscriber_id
        /\ \E j \in 1..Len(articles) : articles[j].id = sent_emails[k].article_id

(* Two subscribers have a record for the article. *)
C10_Witness ==
    /\ Len(sent_emails) >= 2
    /\ \E j, k \in 1..Len(sent_emails) :
          sent_emails[j].subscriber_id # sent_emails[k].subscriber_id

====
